---- MODULE Spec2Model ----
(***************************************************************************)
(* A model of the helpdesk application: the hosted store with its          *)
(* row-level security policies (supabase/migrations), and the page         *)
(* components that issue requests against it on behalf of the signed-in    *)
(* user (Dashboard, TicketList, TicketDetail, KnowledgeBase,               *)
(* KnowledgeBaseArticle, KnowledgeBaseEditor, Settings).                    *)
(*                                                                         *)
(* The auth store (useAuth) holds the user that AuthProvider, signIn,      *)
(* signUp and signOut set from the answers of the identity provider;       *)
(* ProtectedRoute renders from it.  In the specifications of the pages a   *)
(* user is signed in and stays so.                                         *)
(*                                                                         *)
(* A request fails with an error when a policy rejects it or when the      *)
(* store cannot answer (storeDown, which the environment sets and clears   *)
(* at any time); JavaScript numbers are exact fractions; a page holds the  *)
(* last notification shown (toast).                                        *)
(*                                                                         *)
(* Policy semantics (PostgreSQL): the permissive policies of one command   *)
(* are OR-ed; a FOR ALL policy applies to every command; USING filters the *)
(* existing rows a SELECT, UPDATE or DELETE can touch (rows that fail it    *)
(* are skipped silently, the statement succeeds on zero rows); WITH CHECK  *)
(* (or, when absent, the USING expression) is tested on the new row of an  *)
(* INSERT or UPDATE and raises an error when it fails.  A table with row   *)
(* security enabled and no policy for a command admits no row for it.      *)
(* A policy's sub-select on users is read as the policy states it: it finds *)
(* the caller's own row ("Users can view their own profile" admits it),     *)
(* also where the policy is one of users itself.                            *)
(***************************************************************************)
EXTENDS Integers, Sequences, FiniteSets, TLC

\* ------------------------------------------------------------------ bounds
MaxTickets == 2
MaxComments == 1
MaxArticles == 2
MaxCategories == 2
\* tickets stored in the specification of the store's interface alone
MaxInserted == 1
\* rows in an answer to the Dashboard's query, where the answer is arbitrary
MaxFetched == 2
\* days the store's clock runs, in one step
MaxClock == 8
\* tickets, and articles, stored beside the views that send mutations
MaxMutated == 1
\* role queries counted per view; the count stops there (that many, or more)
MaxLookups == 2
\* calls of signIn, signUp and signOut not yet returned, and session-change
\* events not yet delivered
MaxAuthCalls == 2
MaxAuthEvents == 2
\* category deletions sent from Settings and not yet answered
MaxDeletes == 2

\* ------------------------------------------------------------ enumerations
\* SQL NULL, JavaScript null: equal to no user id, status or role.
NULL == "NULL"

\* CREATE TYPE user_role
UserRoles == {"client", "agent", "manager"}
\* CREATE TYPE ticket_status
TicketStatuses == {"open", "pending", "resolved", "closed"}
\* CREATE TYPE article_status
ArticleStatuses == {"draft", "pending_review", "published"}

\* The authenticated identities of the model: two clients, an agent, a manager.
Users == {"c1", "c2", "a1", "m1"}

InitialRole == [u \in Users |->
                  CASE u = "a1" -> "agent"
                    [] u = "m1" -> "manager"
                    [] OTHER -> "client"]

VARIABLES
  \* ---- the store (one variable per table)
  role,              \* users.role, by users.id
  tickets,           \* sequence of ticket rows; a row's id is its index
  ticket_comments,   \* sequence of comment rows in created_at order
  knowledge_base,    \* sequence of article rows; a row's id is its index
  categories,        \* set of category ids stored
  nextCategoryId,    \* ids handed out so far (gen_random_uuid never repeats)
  now,               \* the store's clock, now() (seconds)
  storeDown,         \* the store answers every request with an error
  \* ---- the last request answered by the store
  lastOp,
  \* ---- the browser session
  user,              \* useAuth().user
  authLoading,       \* useAuth().loading
  session,           \* the identity provider's current session user
  authInFlight,      \* calls to the identity provider, sent or answered
  authEvents,        \* session-change events not yet delivered to the listener
  page,              \* the page component mounted by the router
  paramId,           \* useParams().id
  pending,           \* requests of the mount effect not yet answered
  userProfile,       \* useState userProfile (the role looked up)
  profileLookups,    \* the fetchUserProfile calls of the page since its mount
  loading,           \* useState loading
  toast,             \* the last notification shown
  ticketList,        \* TicketList: useState tickets
  ticket,            \* TicketDetail: useState ticket
  comments,          \* TicketDetail: useState comments
  newComment,        \* TicketDetail: useState newComment
  isInternalNote,    \* TicketDetail: useState isInternalNote
  articles,          \* KnowledgeBase: useState articles
  article,           \* KnowledgeBaseArticle: useState article
  formData,          \* KnowledgeBaseEditor: useState formData (its status)
  activeTab,         \* Settings: useState activeTab
  settingsCategories,\* Settings: useState categories
  settingsUsers,     \* Settings: useState users
  slaConfig,         \* Settings: useState slaConfig, by priority
  deletesInFlight,   \* Settings: the handleDeleteCategory calls not yet answered
  newCategory,       \* Settings: useState newCategory (name typed or not)
  timeRange,         \* Dashboard: useState timeRange (days)
  stats,             \* Dashboard: useState stats
  ticketStats,       \* Dashboard: the rows of the answer fetchStats reduced last
  statsPending       \* Dashboard: the fetchStats requests not yet answered

storeVars == <<role, tickets, ticket_comments, knowledge_base, categories,
               nextCategoryId, now, storeDown>>
profileVars == <<userProfile, profileLookups>>
authVars == <<user, authLoading, session, authInFlight, authEvents>>
sessionVars == <<authVars, page, paramId, pending, profileVars, loading, toast>>
ticketViewVars == <<ticketList, ticket, comments, newComment, isInternalNote>>
kbViewVars == <<articles, article, formData>>
settingsRest == <<settingsUsers, slaConfig, deletesInFlight>>
settingsViewVars == <<activeTab, settingsCategories, settingsRest, newCategory>>
dashboardViewVars == <<timeRange, stats, ticketStats, statsPending>>
viewVars == <<ticketViewVars, kbViewVars, settingsViewVars, dashboardViewVars>>
vars == <<storeVars, lastOp, sessionVars, viewVars>>

\* ----------------------------------------------------- row-level security
\* EXISTS (SELECT 1 FROM users WHERE id = auth.uid() AND role IN (...))
AuthRoleIn(uid, rs) == \E u \in DOMAIN role : u = uid /\ role[u] \in rs

\* -- users
UsersCanViewTheirOwnProfile(uid, id) == uid = id
AgentsAndManagersCanViewAllUsers(uid) == AuthRoleIn(uid, {"agent", "manager"})
UsersSelectUsing(uid, id) ==
  UsersCanViewTheirOwnProfile(uid, id) \/ AgentsAndManagersCanViewAllUsers(uid)
\* Row security is enabled on users and no policy names UPDATE.
UsersUpdateUsing(uid, id) == FALSE

\* -- tickets
\* (a policy that forgets the ownership test)
ViewAnyTicket(uid, t) == TRUE
ClientsCanViewTheirOwnTickets(uid, t) == t.created_by = uid
\* (a policy that forgets WITH CHECK)
CreateAnyTicket(uid, t) == TRUE
ClientsCanCreateTickets(uid, t) == uid = t.created_by
AgentsCanViewAllTickets(uid) == AuthRoleIn(uid, {"agent"})
AgentsCanUpdateTickets(uid) == AuthRoleIn(uid, {"agent"})
ManagersCanViewAllTickets(uid) == AuthRoleIn(uid, {"manager"})
TicketsSelectUsing(uid, t) ==
  \/ ClientsCanViewTheirOwnTickets(uid, t)
  \/ AgentsCanViewAllTickets(uid)
  \/ ManagersCanViewAllTickets(uid)
TicketsInsertCheck(uid, t) ==
  ClientsCanCreateTickets(uid, t) \/ ManagersCanViewAllTickets(uid)
TicketsUpdateUsing(uid, t) ==
  AgentsCanUpdateTickets(uid) \/ ManagersCanViewAllTickets(uid)

\* -- ticket_comments
\* The policy's sub-select on tickets is itself filtered by the tickets policies.
UsersCanViewCommentsOnTheirTickets(uid, c) ==
  \E i \in DOMAIN tickets :
     /\ TicketsSelectUsing(uid, tickets[i])
     /\ tickets[i].id = c.ticket_id
     /\ \/ tickets[i].created_by = uid
        \/ tickets[i].assigned_to = uid
        \/ AuthRoleIn(uid, {"agent", "manager"})
\* (a policy that forgets the role test)
AnyoneCanCreateComments(uid) == TRUE
AgentsAndManagersCanCreateComments(uid) == AuthRoleIn(uid, {"agent", "manager"})
CommentsSelectUsing(uid, c) == UsersCanViewCommentsOnTheirTickets(uid, c)
CommentsInsertCheck(uid, c) == AgentsAndManagersCanCreateComments(uid)

\* -- knowledge_base
\* (a policy that forgets the status test)
AnyoneCanViewAnyArticle(a) == TRUE
AnyoneCanViewPublishedArticles(a) == a.status = "published"
AgentsCanCreateAndEditArticles(uid) == AuthRoleIn(uid, {"agent", "manager"})
ArticlesSelectUsing(uid, a) ==
  AnyoneCanViewPublishedArticles(a) \/ AgentsCanCreateAndEditArticles(uid)
ArticlesWriteUsing(uid) == AgentsCanCreateAndEditArticles(uid)

\* -- categories
CategoriesAreViewableByAll(uid) == uid \in Users
\* (a policy that forgets the role test)
AnyoneCanManageCategories(uid) == TRUE
OnlyManagersCanManageCategories(uid) == AuthRoleIn(uid, {"manager"})
CategoriesSelectUsing(uid) ==
  CategoriesAreViewableByAll(uid) \/ OnlyManagersCanManageCategories(uid)
CategoriesWriteUsing(uid) == OnlyManagersCanManageCategories(uid)


\* ------------------------------------------------------- store commands
\* CREATE TABLE tickets: status DEFAULT 'open', assigned_to and sla_due_at
\* unset, created_at and updated_at DEFAULT now().  sla_due_at is <<>> for
\* NULL, or <<t>> for the time t.
NewTicketRow(created_by) ==
  [id |-> Len(tickets) + 1, status |-> "open", created_by |-> created_by,
   assigned_to |-> NULL, sla_due_at |-> <<>>, created_at |-> now,
   updated_at |-> now]

\* SELECT ... FROM tickets, as uid
TicketsSelect(uid) ==
  {tickets[i] : i \in {j \in DOMAIN tickets : TicketsSelectUsing(uid, tickets[j])}}

\* INSERT INTO tickets: the new row must pass WITH CHECK, else an error.
TicketsInsertError(uid, created_by) ==
  ~TicketsInsertCheck(uid, NewTicketRow(created_by))
TicketsInsert(uid, created_by) ==
  tickets' = IF TicketsInsertError(uid, created_by) THEN tickets
             ELSE Append(tickets, NewTicketRow(created_by))

\* UPDATE tickets SET col = val WHERE id = ..., as uid: the rows the command can
\* see and that pass the UPDATE policies' USING; the others are skipped.
TicketsUpdateRows(uid, id) ==
  {i \in DOMAIN tickets : /\ tickets[i].id = id
                          /\ TicketsSelectUsing(uid, tickets[i])
                          /\ TicketsUpdateUsing(uid, tickets[i])}
\* No UPDATE policy states WITH CHECK: USING is tested on the new row.
TicketsUpdateError(uid, id, col, val) ==
  \E i \in TicketsUpdateRows(uid, id) :
     ~TicketsUpdateUsing(uid, [tickets[i] EXCEPT ![col] = val])
(* an update that also sets updated_at to the time of the update, as a
   trigger on the table would *)
TicketsUpdateTouching(uid, id, col, val) ==
  tickets' = IF TicketsUpdateError(uid, id, col, val) THEN tickets
             ELSE [i \in DOMAIN tickets |->
                     IF i \in TicketsUpdateRows(uid, id)
                     THEN [tickets[i] EXCEPT ![col] = val, !.updated_at = now]
                     ELSE tickets[i]]
(* an update that keeps a status another update has already moved from its
   default *)
TicketsUpdateFirstWins(uid, id, col, val) ==
  tickets' = IF TicketsUpdateError(uid, id, col, val) THEN tickets
             ELSE [i \in DOMAIN tickets |->
                     IF i \in TicketsUpdateRows(uid, id) /\ tickets[i].status = "open"
                     THEN [tickets[i] EXCEPT ![col] = val]
                     ELSE tickets[i]]
TicketsUpdate(uid, id, col, val) ==
  tickets' = IF TicketsUpdateError(uid, id, col, val) THEN tickets
             ELSE [i \in DOMAIN tickets |->
                     IF i \in TicketsUpdateRows(uid, id)
                     THEN [tickets[i] EXCEPT ![col] = val]
                     ELSE tickets[i]]

\* SELECT ... FROM ticket_comments WHERE ticket_id = ... ORDER BY created_at,
\* over the table contents rows
CommentsSelectIn(rows, uid, ticket_id) ==
  SelectSeq(rows, LAMBDA c : c.ticket_id = ticket_id /\ CommentsSelectUsing(uid, c))
CommentsSelect(uid, ticket_id) == CommentsSelectIn(ticket_comments, uid, ticket_id)

NewCommentRow(ticket_id, internal_note, created_by) ==
  [id |-> Len(ticket_comments) + 1, ticket_id |-> ticket_id,
   internal_note |-> internal_note, created_by |-> created_by]
CommentsInsertError(uid, ticket_id, internal_note, created_by) ==
  ~CommentsInsertCheck(uid, NewCommentRow(ticket_id, internal_note, created_by))
CommentsInsert(uid, ticket_id, internal_note, created_by) ==
  ticket_comments' =
    IF CommentsInsertError(uid, ticket_id, internal_note, created_by)
    THEN ticket_comments
    ELSE Append(ticket_comments, NewCommentRow(ticket_id, internal_note, created_by))

\* SELECT ... FROM knowledge_base, as uid
ArticlesSelect(uid) ==
  {knowledge_base[i] :
     i \in {j \in DOMAIN knowledge_base :
              ArticlesSelectUsing(uid, knowledge_base[j])}}

\* CREATE TABLE knowledge_base
NewArticleRow(status, author_id) ==
  [id |-> Len(knowledge_base) + 1, status |-> status, author_id |-> author_id]
\* The FOR ALL policy has no WITH CHECK: its USING is tested on the new row.
ArticlesInsertError(uid, status, author_id) == ~ArticlesWriteUsing(uid)
ArticlesInsert(uid, status, author_id) ==
  knowledge_base' = IF ArticlesInsertError(uid, status, author_id)
                    THEN knowledge_base
                    ELSE Append(knowledge_base, NewArticleRow(status, author_id))

ArticlesUpdateRows(uid, id) ==
  {i \in DOMAIN knowledge_base : /\ knowledge_base[i].id = id
                                 /\ ArticlesSelectUsing(uid, knowledge_base[i])
                                 /\ ArticlesWriteUsing(uid)}
ArticlesUpdate(uid, id, status) ==
  knowledge_base' = [i \in DOMAIN knowledge_base |->
                       IF i \in ArticlesUpdateRows(uid, id)
                       THEN [knowledge_base[i] EXCEPT !.status = status]
                       ELSE knowledge_base[i]]

\* SELECT ... FROM categories, as uid, over the table contents rows
CategoriesSelectIn(rows, uid) == {c \in rows : CategoriesSelectUsing(uid)}
CategoriesSelect(uid) == CategoriesSelectIn(categories, uid)

CategoriesInsertError(uid) == ~CategoriesWriteUsing(uid)
CategoriesInsert(uid) ==
  IF CategoriesInsertError(uid)
  THEN UNCHANGED <<categories, nextCategoryId>>
  ELSE /\ categories' = categories \cup {nextCategoryId + 1}
       /\ nextCategoryId' = nextCategoryId + 1

\* DELETE FROM categories WHERE id = ..., as uid: rows failing USING are skipped.
CategoriesDeleteRows(uid, id) ==
  {c \in categories : c = id /\ CategoriesSelectUsing(uid)
                             /\ CategoriesWriteUsing(uid)}
CategoriesDelete(uid, id) == categories' = categories \ CategoriesDeleteRows(uid, id)

\* SELECT ... FROM users, as uid: the rows as [id, role]
UsersSelect(uid) ==
  {[id |-> u, role |-> role[u]] : u \in {v \in DOMAIN role : UsersSelectUsing(uid, v)}}

\* UPDATE users SET role = ... WHERE id = ..., as uid
UsersUpdateRows(uid, id) ==
  {u \in DOMAIN role : u = id /\ UsersSelectUsing(uid, u) /\ UsersUpdateUsing(uid, u)}
UsersUpdateRole(uid, id, newRole) ==
  role' = [u \in DOMAIN role |->
             IF u \in UsersUpdateRows(uid, id) THEN newRole ELSE role[u]]

\* ------------------------------------------------------------ initial state
\* Dashboard: useState('7'), and the stats of the first render.
DefaultTimeRange == 7
NoStats ==
  [openTickets |-> 0, resolvedTickets |-> 0, pendingTickets |-> 0,
   urgentTickets |-> 0, avgResponseTime |-> <<0, 1>>,
   avgResolutionTime |-> <<0, 1>>, ticketsByCategory |-> <<>>,
   ticketsByAgent |-> <<>>]

\* Settings: useState<SLAConfig[]>([...]), hours by priority
InitialSLAConfig ==
  [priority \in {"urgent", "high", "medium", "low"} |->
     CASE priority = "urgent" -> [response_time |-> 1, resolution_time |-> 4]
       [] priority = "high" -> [response_time |-> 4, resolution_time |-> 8]
       [] priority = "medium" -> [response_time |-> 8, resolution_time |-> 24]
       [] OTHER -> [response_time |-> 24, resolution_time |-> 48]]

\* null, for the state of a page that holds a row or a profile
NoProfile == [role |-> NULL]
NoTicket ==
  [id |-> 0, status |-> NULL, created_by |-> NULL, assigned_to |-> NULL,
   sla_due_at |-> <<>>, created_at |-> 0, updated_at |-> 0]
NoArticle == [id |-> 0, status |-> NULL, author_id |-> NULL]

\* The record kept of a request sent to the store's interface and of the answer:
\* error (an error object came back) and rows (the rows the command changed).
\* id is the ticket or category the command names, usr the users row it names.
Op(cmd, actor, id, usr, col, val, error, rows) ==
  [cmd |-> cmd, actor |-> actor, id |-> id, usr |-> usr, col |-> col,
   val |-> val, error |-> error, rows |-> rows]
NoOp == Op("none", NULL, 0, NULL, NULL, NULL, FALSE, 0)

InitApp ==
  /\ role = InitialRole
  /\ tickets = <<>>
  /\ ticket_comments = <<>>
  /\ knowledge_base = <<>>
  /\ categories = {1}
  /\ nextCategoryId = 1
  /\ now = 0
  /\ storeDown = FALSE
  /\ lastOp = NoOp
  /\ page = "none"
  /\ paramId = 0
  /\ pending = {}
  /\ userProfile = NoProfile
  /\ profileLookups = 0
  /\ loading = TRUE
  /\ toast = ""
  /\ ticketList = {}
  /\ ticket = NoTicket
  /\ comments = <<>>
  /\ newComment = ""
  /\ isInternalNote = FALSE
  /\ articles = {}
  /\ article = NoArticle
  /\ formData = "draft"
  /\ activeTab = "categories"
  /\ settingsCategories = {}
  /\ settingsUsers = {}
  /\ slaConfig = InitialSLAConfig
  /\ deletesInFlight = {}
  /\ newCategory = ""
  /\ timeRange = DefaultTimeRange
  /\ stats = NoStats
  /\ ticketStats = <<>>
  /\ statsPending = {}

\* a user is signed in, and nothing of the sign-in is outstanding
Init ==
  /\ InitApp
  /\ user \in Users
  /\ authLoading = FALSE
  /\ session = user
  /\ authInFlight = {}
  /\ authEvents = <<>>


\* ------------------------------------------- requests at the store boundary
\* Any authenticated user can send any command to the store's interface (the
\* pages are one client of it among others); the policies alone decide what
\* the command does.  lastOp keeps the request and the store's answer.
pageVars == <<sessionVars, viewVars>>

StoreInsertTicket(actor, created_by) ==
  /\ \/ Len(tickets) < MaxInserted
     \/ TicketsInsertError(actor, created_by)
  /\ TicketsInsert(actor, created_by)
  /\ lastOp' = Op("tickets.insert", actor, Len(tickets) + 1, NULL, "created_by",
                  created_by, TicketsInsertError(actor, created_by),
                  IF TicketsInsertError(actor, created_by) THEN 0 ELSE 1)
  /\ UNCHANGED <<role, ticket_comments, knowledge_base, categories, nextCategoryId, now, storeDown>>
  /\ UNCHANGED pageVars

StoreUpdateTicket(actor, id, col, val) ==
  /\ id \in DOMAIN tickets
  /\ TicketsUpdate(actor, id, col, val)
  /\ lastOp' = Op("tickets.update", actor, id, NULL, col, val,
                  TicketsUpdateError(actor, id, col, val),
                  IF TicketsUpdateError(actor, id, col, val) THEN 0
                  ELSE Cardinality(TicketsUpdateRows(actor, id)))
  /\ UNCHANGED <<role, ticket_comments, knowledge_base, categories, nextCategoryId, now, storeDown>>
  /\ UNCHANGED pageVars

StoreInsertCategory(actor) ==
  /\ nextCategoryId < MaxCategories
  /\ CategoriesInsert(actor)
  /\ lastOp' = Op("categories.insert", actor, nextCategoryId + 1, NULL, NULL,
                  NULL, CategoriesInsertError(actor),
                  IF CategoriesInsertError(actor) THEN 0 ELSE 1)
  /\ UNCHANGED <<role, tickets, ticket_comments, knowledge_base, now, storeDown>>
  /\ UNCHANGED pageVars

StoreDeleteCategory(actor, id) ==
  /\ id \in categories
  /\ CategoriesDelete(actor, id)
  /\ lastOp' = Op("categories.delete", actor, id, NULL, NULL, NULL, FALSE,
                  Cardinality(CategoriesDeleteRows(actor, id)))
  /\ UNCHANGED <<role, tickets, ticket_comments, knowledge_base, nextCategoryId, now, storeDown>>
  /\ UNCHANGED pageVars

StoreUpdateUserRole(actor, id, newRole) ==
  /\ UsersUpdateRole(actor, id, newRole)
  /\ lastOp' = Op("users.update", actor, 0, id, "role", newRole, FALSE,
                  Cardinality(UsersUpdateRows(actor, id)))
  /\ UNCHANGED <<tickets, ticket_comments, knowledge_base, categories, nextCategoryId, now, storeDown>>
  /\ UNCHANGED pageVars

\* The column updates a request on tickets may carry.
TicketPatches ==
  ({"status"} \X TicketStatuses) \cup ({"created_by"} \X Users)

StoreNext ==
  \/ \E actor \in Users, created_by \in Users \cup {NULL} :
        StoreInsertTicket(actor, created_by)
  \/ \E actor \in Users, id \in 1..MaxInserted, patch \in TicketPatches :
        StoreUpdateTicket(actor, id, patch[1], patch[2])

StoreAdminNext ==
  \/ \E actor \in Users : StoreInsertCategory(actor)
  \/ \E actor \in Users, id \in 1..MaxCategories : StoreDeleteCategory(actor, id)
  \/ \E actor \in Users, id \in Users, newRole \in UserRoles :
        StoreUpdateUserRole(actor, id, newRole)

\* The store's interface alone, no page mounted: the tickets table ...
InitStore == Init /\ user = "c1"
Spec == InitStore /\ [][StoreNext]_vars
\* ... and the categories and users tables.
SpecAdmin == InitStore /\ [][StoreAdminNext]_vars

\* --------------------------------------------------------- page components
\* A page mounted by the router starts from its useState initial values; the
\* state of the page it replaces is discarded.  The mount effect issues the
\* requests named in reqs.
\* startDate.setDate(startDate.getDate() - parseInt(timeRange))
SecondsPerDay == 24 * 60 * 60
StatsRequest(range) == [range |-> range, startDate |-> now - range * SecondsPerDay]

Mount(p, id, reqs, spinner) ==
  /\ page' = p
  /\ paramId' = id
  /\ pending' = reqs
  /\ userProfile' = NoProfile
  /\ profileLookups' = IF "profile" \in reqs THEN 1 ELSE 0
  /\ loading' = spinner
  /\ ticketList' = {}
  /\ ticket' = NoTicket
  /\ comments' = <<>>
  /\ newComment' = ""
  /\ isInternalNote' = FALSE
  /\ articles' = {}
  /\ article' = NoArticle
  /\ formData' = "draft"
  /\ activeTab' = "categories"
  /\ settingsCategories' = {}
  /\ settingsUsers' = {}
  /\ slaConfig' = InitialSLAConfig
  /\ deletesInFlight' = {}
  /\ newCategory' = ""
  /\ timeRange' = DefaultTimeRange
  /\ stats' = NoStats
  /\ ticketStats' = <<>>
  /\ statsPending' = IF p = "Dashboard" THEN {StatsRequest(DefaultTimeRange)}
                     ELSE {}
  /\ UNCHANGED authVars

\* one more call of fetchUserProfile
Lookup(n) == IF n < MaxLookups THEN n + 1 ELSE MaxLookups

\* fetchUserProfile of a page: users.select('role').eq('id', user.id).single();
\* the data when exactly one row comes back, else an error (null here).
ProfileOf(uid) ==
  LET rows == {r \in UsersSelect(uid) : r.id = uid}
  IN IF Cardinality(rows) = 1 THEN [role |-> (CHOOSE r \in rows : TRUE).role]
     ELSE NoProfile

\* The answer to fetchUserProfile on a page whose effect does not depend on
\* userProfile (TicketDetail, KnowledgeBase, KnowledgeBaseArticle).
fetchUserProfile(p) ==
  /\ page = p
  /\ "profile" \in pending
  /\ userProfile' = IF ~storeDown /\ ProfileOf(user) # NoProfile
                    THEN ProfileOf(user)
                    ELSE userProfile
  /\ UNCHANGED profileLookups
  /\ pending' = pending \ {"profile"}
  /\ UNCHANGED <<storeVars, lastOp, authVars, page, paramId, loading, toast, viewVars>>

\* ---- TicketList
MountTicketList ==
  /\ Mount("TicketList", 0, {"profile"}, TRUE)
  /\ UNCHANGED <<storeVars, lastOp, toast>>

\* The answer to fetchUserProfile: setUserProfile stores a new object, and the
\* effect (deps user, userProfile, filter) runs again: it issues
\* fetchUserProfile, and fetchTickets now that userProfile is set.
TicketList_fetchUserProfile ==
  /\ page = "TicketList"
  /\ "profile" \in pending
  /\ IF ~storeDown /\ ProfileOf(user) # NoProfile
     THEN /\ userProfile' = ProfileOf(user)
          /\ profileLookups' = Lookup(profileLookups)
          /\ pending' = pending \cup {"profile", "tickets"}
     ELSE /\ pending' = pending \ {"profile"}
          /\ UNCHANGED profileVars
  /\ UNCHANGED <<storeVars, lastOp, authVars, page, paramId, loading, toast, viewVars>>

\* fetchTickets: the role filter of the query, then the policies of the store.
fetchTickets ==
  /\ page = "TicketList"
  /\ "tickets" \in pending
  /\ ticketList' = IF storeDown THEN ticketList
                   ELSE {t \in TicketsSelect(user) :
                           userProfile.role = "client" => t.created_by = user}
  /\ loading' = FALSE
  /\ pending' = pending \ {"tickets"}
  /\ UNCHANGED <<storeVars, lastOp, authVars, page, paramId, profileVars, toast>>
  /\ UNCHANGED <<ticket, comments, newComment, isInternalNote, kbViewVars,
                 settingsViewVars, dashboardViewVars>>

\* ---- TicketDetail
MountTicketDetail(id) ==
  /\ Mount("TicketDetail", id, {"profile", "ticket"}, TRUE)
  /\ UNCHANGED <<storeVars, lastOp, toast>>

TicketDetail_fetchUserProfile == fetchUserProfile("TicketDetail")

\* fetchTicket: tickets.select(...).eq('id', id).single(), then the comments of
\* the ticket; .single() is an error unless exactly one row comes back.
fetchTicket ==
  /\ page = "TicketDetail"
  /\ "ticket" \in pending
  /\ LET rows == {t \in TicketsSelect(user) : t.id = paramId}
     IN IF storeDown \/ Cardinality(rows) # 1
        THEN /\ toast' = "Failed to load ticket"
             /\ Mount("TicketList", 0, {"profile"}, TRUE)
        ELSE /\ ticket' = CHOOSE t \in rows : TRUE
             /\ comments' = CommentsSelect(user, paramId)
             /\ loading' = FALSE
             /\ pending' = pending \ {"ticket"}
             /\ UNCHANGED <<authVars, page, paramId, profileVars, toast>>
             /\ UNCHANGED <<ticketList, newComment, isInternalNote,
                            kbViewVars, settingsViewVars, dashboardViewVars>>
  /\ UNCHANGED <<storeVars, lastOp>>

\* The options of the status select, which is rendered for an agent or a
\* manager only.
(* a status control that offers every value of ticket_status *)
EveryTicketStatus == TicketStatuses
StatusOptions == {"open", "pending", "resolved"}
handleStatusChange(newStatus) ==
  /\ page = "TicketDetail"
  /\ ~loading
  /\ ticket # NoTicket
  /\ userProfile.role \in {"agent", "manager"}
  /\ IF storeDown THEN UNCHANGED tickets
     ELSE TicketsUpdate(user, ticket.id, "status", newStatus)
  /\ IF storeDown \/ TicketsUpdateError(user, ticket.id, "status", newStatus)
     THEN /\ toast' = "Failed to update status"
          /\ UNCHANGED ticket
     ELSE /\ ticket' = [ticket EXCEPT !.status = newStatus]
          /\ toast' = "Status updated successfully"
  /\ UNCHANGED <<role, ticket_comments, knowledge_base, categories, nextCategoryId, now, storeDown>>
  /\ UNCHANGED <<lastOp, authVars, page, paramId, pending, profileVars, loading>>
  /\ UNCHANGED <<ticketList, comments, newComment, isInternalNote,
                 kbViewVars, settingsViewVars, dashboardViewVars>>

\* The comment box: typing a text, or clearing it.
setNewComment(text) ==
  /\ page = "TicketDetail"
  /\ ~loading
  /\ ticket # NoTicket
  /\ text # newComment
  /\ newComment' = text
  /\ UNCHANGED <<storeVars, lastOp, sessionVars>>
  /\ UNCHANGED <<ticketList, ticket, comments, isInternalNote, kbViewVars,
                 settingsViewVars, dashboardViewVars>>

\* The internal-note checkbox is rendered for an agent or a manager only.
setIsInternalNote(checked) ==
  /\ page = "TicketDetail"
  /\ ~loading
  /\ ticket # NoTicket
  /\ userProfile.role \in {"agent", "manager"}
  /\ checked # isInternalNote
  /\ isInternalNote' = checked
  /\ UNCHANGED <<storeVars, lastOp, sessionVars>>
  /\ UNCHANGED <<ticketList, ticket, comments, newComment, kbViewVars,
                 settingsViewVars, dashboardViewVars>>

\* handleCommentSubmit: the insert, and on success the re-fetch of the
\* comments and the reset of the form.  The submit button is disabled while
\* the box is empty.
handleCommentSubmit ==
  /\ page = "TicketDetail"
  /\ ~loading
  /\ ticket # NoTicket
  /\ newComment # ""
  /\ \/ Len(ticket_comments) < MaxComments
     \/ CommentsInsertError(user, ticket.id, isInternalNote, user)
     \/ storeDown
  /\ IF storeDown THEN UNCHANGED ticket_comments
     ELSE CommentsInsert(user, ticket.id, isInternalNote, user)
  /\ IF storeDown \/ CommentsInsertError(user, ticket.id, isInternalNote, user)
     THEN /\ toast' = "Failed to add comment"
          /\ UNCHANGED <<comments, newComment, isInternalNote>>
     ELSE /\ comments' = CommentsSelectIn(ticket_comments', user, ticket.id)
          /\ newComment' = ""
          /\ isInternalNote' = FALSE
          /\ toast' = "Comment added successfully"
  /\ UNCHANGED <<role, tickets, knowledge_base, categories, nextCategoryId, now, storeDown>>
  /\ UNCHANGED <<lastOp, authVars, page, paramId, pending, profileVars, loading>>
  /\ UNCHANGED <<ticketList, ticket, kbViewVars, settingsViewVars, dashboardViewVars>>

\* ---- the same requests, sent from the pages of other users' sessions
\* A ticket filed from another session: the insert the policy "Clients can
\* create tickets" admits, with created_by the author.
Other_createTicket(u) ==
  /\ ~storeDown
  /\ Len(tickets) < MaxTickets
  /\ TicketsInsert(u, u)
  /\ UNCHANGED <<role, ticket_comments, knowledge_base, categories, nextCategoryId, now, storeDown>>
  /\ UNCHANGED <<lastOp, pageVars>>

Other_handleStatusChange(u, id, newStatus) ==
  /\ ~storeDown
  /\ u # user
  /\ id \in DOMAIN tickets
  /\ role[u] \in {"agent", "manager"}
  /\ TicketsUpdate(u, id, "status", newStatus)
  /\ UNCHANGED <<role, ticket_comments, knowledge_base, categories, nextCategoryId, now, storeDown>>
  /\ UNCHANGED <<lastOp, pageVars>>

Other_handleCommentSubmit(u, id, internal_note) ==
  /\ ~storeDown
  /\ u # user
  /\ id \in DOMAIN tickets
  /\ Len(ticket_comments) < MaxComments
  /\ internal_note => role[u] \in {"agent", "manager"}
  /\ CommentsInsert(u, id, internal_note, u)
  /\ UNCHANGED <<role, tickets, knowledge_base, categories, nextCategoryId, now, storeDown>>
  /\ UNCHANGED <<lastOp, pageVars>>

(* a clock whose passing moves the tickets past their due time to pending *)
TickEscalating ==
  /\ now + MaxClock * SecondsPerDay <= MaxClock * SecondsPerDay
  /\ now' = now + MaxClock * SecondsPerDay
  /\ tickets' = [i \in DOMAIN tickets |->
                   IF tickets[i].sla_due_at # <<>> /\ tickets[i].sla_due_at[1] < now'
                   THEN [tickets[i] EXCEPT !.status = "pending"]
                   ELSE tickets[i]]
  /\ UNCHANGED <<role, ticket_comments, knowledge_base, categories,
                 nextCategoryId, storeDown>>
  /\ UNCHANGED <<lastOp, pageVars>>

\* time passes
Tick ==
  /\ now + MaxClock * SecondsPerDay <= MaxClock * SecondsPerDay
  /\ now' = now + MaxClock * SecondsPerDay
  /\ UNCHANGED <<role, tickets, ticket_comments, knowledge_base, categories,
                 nextCategoryId, storeDown>>
  /\ UNCHANGED <<lastOp, pageVars>>

\* A ticket filed with a due time: the insert the policy "Clients can create
\* tickets" admits, carrying sla_due_at, a day from now.
Other_createTicketDue(u) ==
  /\ ~storeDown
  /\ Len(tickets) < MaxMutated
  /\ TicketsInsertCheck(u, NewTicketRow(u))
  /\ tickets' = Append(tickets, [NewTicketRow(u) EXCEPT
                                   !.sla_due_at = <<now + SecondsPerDay>>])
  /\ UNCHANGED <<role, ticket_comments, knowledge_base, categories, nextCategoryId,
                 now, storeDown>>
  /\ UNCHANGED <<lastOp, pageVars>>

\* The users who file tickets in the sessions beside this one: the clients.
TicketAuthors == {u \in Users : InitialRole[u] = "client"}
\* ... and the one client who does, where one author is enough
DashboardAuthors == {"c1"}

TicketsNext ==
  \/ MountTicketList
  \/ TicketList_fetchUserProfile
  \/ fetchTickets
  \/ \E id \in 1..MaxTickets : MountTicketDetail(id)
  \/ TicketDetail_fetchUserProfile
  \/ fetchTicket
  \/ \E newStatus \in StatusOptions : handleStatusChange(newStatus)
  \/ \E text \in {"", "text"} : setNewComment(text)
  \/ \E checked \in BOOLEAN : setIsInternalNote(checked)
  \/ handleCommentSubmit
  \/ \E u \in TicketAuthors : Other_createTicket(u)
  \/ \E u \in Users, id \in 1..MaxTickets, newStatus \in StatusOptions :
        Other_handleStatusChange(u, id, newStatus)
  \/ \E u \in Users, id \in 1..MaxTickets, internal_note \in BOOLEAN :
        Other_handleCommentSubmit(u, id, internal_note)

\* The ticket pages of one session, beside the sessions of the other users.
SpecTickets == Init /\ [][TicketsNext]_vars

\* TicketList, mounted once and left alone, beside the clients who file
\* tickets; every request sent is answered in the end.
TicketListNext ==
  \/ (page = "none" /\ MountTicketList)
  \/ TicketList_fetchUserProfile
  \/ fetchTickets
  \/ \E u \in TicketAuthors : Other_createTicket(u)

SpecTicketList ==
  /\ Init
  /\ [][TicketListNext]_vars
  /\ WF_vars(TicketList_fetchUserProfile)
  /\ WF_vars(fetchTickets)

\* TicketDetail of one session, beside the status changes of the other users,
\* as time passes.
StatusNext ==
  \/ \E id \in 1..MaxTickets : MountTicketDetail(id)
  \/ TicketDetail_fetchUserProfile
  \/ fetchTicket
  \/ \E newStatus \in StatusOptions : handleStatusChange(newStatus)
  \/ \E u \in DashboardAuthors : Other_createTicket(u)
  \/ \E u \in Users, id \in 1..MaxTickets, newStatus \in StatusOptions :
        Other_handleStatusChange(u, id, newStatus)
  \/ Tick

SpecStatus == Init /\ [][StatusNext]_vars

\* ---- KnowledgeBase
MountKnowledgeBase ==
  /\ Mount("KnowledgeBase", 0, {"profile", "articles"}, TRUE)
  /\ UNCHANGED <<storeVars, lastOp, toast>>

KnowledgeBase_fetchUserProfile == fetchUserProfile("KnowledgeBase")

\* fetchArticles: knowledge_base.select(...).eq('status', 'published')
fetchArticles ==
  /\ page = "KnowledgeBase"
  /\ "articles" \in pending
  /\ articles' = IF storeDown THEN articles
                 ELSE {a \in ArticlesSelect(user) : a.status = "published"}
  /\ loading' = FALSE
  /\ pending' = pending \ {"articles"}
  /\ UNCHANGED <<storeVars, lastOp, authVars, page, paramId, profileVars, toast>>
  /\ UNCHANGED <<ticketViewVars, article, formData, settingsViewVars, dashboardViewVars>>

\* ---- KnowledgeBaseArticle
MountKnowledgeBaseArticle(id) ==
  /\ Mount("KnowledgeBaseArticle", id, {"profile", "article"}, TRUE)
  /\ UNCHANGED <<storeVars, lastOp, toast>>

KnowledgeBaseArticle_fetchUserProfile == fetchUserProfile("KnowledgeBaseArticle")

\* fetchArticle: knowledge_base.select(...).eq('id', id).single()
fetchArticle ==
  /\ page = "KnowledgeBaseArticle"
  /\ "article" \in pending
  /\ LET rows == {a \in ArticlesSelect(user) : a.id = paramId}
     IN IF storeDown \/ Cardinality(rows) # 1
        THEN /\ toast' = "Failed to load article"
             /\ Mount("KnowledgeBase", 0, {"profile", "articles"}, TRUE)
        ELSE /\ article' = CHOOSE a \in rows : TRUE
             /\ loading' = FALSE
             /\ pending' = pending \ {"article"}
             /\ UNCHANGED <<authVars, page, paramId, profileVars, toast>>
             /\ UNCHANGED <<ticketViewVars, articles, formData, settingsViewVars, dashboardViewVars>>
  /\ UNCHANGED <<storeVars, lastOp>>

\* ---- KnowledgeBaseEditor (id 0: no :id in the path, a new article)
MountKnowledgeBaseEditor(id) ==
  /\ Mount("KnowledgeBaseEditor", id, IF id = 0 THEN {} ELSE {"article"}, FALSE)
  /\ UNCHANGED <<storeVars, lastOp, toast>>

\* fetchArticle of the editor: the form takes the row when exactly one row
\* comes back, and keeps its content otherwise.
KnowledgeBaseEditor_fetchArticle ==
  /\ page = "KnowledgeBaseEditor"
  /\ "article" \in pending
  /\ LET rows == {a \in ArticlesSelect(user) : a.id = paramId}
     IN formData' = IF ~storeDown /\ Cardinality(rows) = 1
                    THEN (CHOOSE a \in rows : TRUE).status
                    ELSE formData
  /\ pending' = pending \ {"article"}
  /\ UNCHANGED <<storeVars, lastOp, authVars, page, paramId, profileVars, loading, toast>>
  /\ UNCHANGED <<ticketViewVars, articles, article, settingsViewVars, dashboardViewVars>>

\* The status select of the form.
setFormData(status) ==
  /\ page = "KnowledgeBaseEditor"
  /\ status # formData
  /\ formData' = status
  /\ UNCHANGED <<storeVars, lastOp, sessionVars>>
  /\ UNCHANGED <<ticketViewVars, articles, article, settingsViewVars, dashboardViewVars>>

\* handleSubmit: the update of article :id, or the insert of a new article
\* with author_id user.id; on success navigate('/knowledge-base').
handleSubmit ==
  /\ page = "KnowledgeBaseEditor"
  /\ IF paramId # 0
     THEN IF storeDown
          THEN /\ toast' = "Failed to update article"
               /\ UNCHANGED <<knowledge_base, authVars, page, paramId, pending,
                              profileVars, loading>>
               /\ UNCHANGED viewVars
          ELSE /\ ArticlesUpdate(user, paramId, formData)
               /\ toast' = "Article updated successfully"
               /\ Mount("KnowledgeBase", 0, {"profile", "articles"}, TRUE)
     ELSE /\ \/ Len(knowledge_base) < MaxArticles
             \/ ArticlesInsertError(user, formData, user)
             \/ storeDown
          /\ IF storeDown THEN UNCHANGED knowledge_base
             ELSE ArticlesInsert(user, formData, user)
          /\ IF storeDown \/ ArticlesInsertError(user, formData, user)
             THEN /\ toast' = "Failed to create article"
                  /\ UNCHANGED <<authVars, page, paramId, pending, profileVars, loading>>
                  /\ UNCHANGED viewVars
             ELSE /\ toast' = "Article created successfully"
                  /\ Mount("KnowledgeBase", 0, {"profile", "articles"}, TRUE)
  /\ UNCHANGED <<role, tickets, ticket_comments, categories, nextCategoryId, now, storeDown, lastOp>>

\* ---- the editor's submit, from the sessions of other users; the links to
\* the editor are rendered for an agent or a manager only.
Other_handleSubmit(u, id, status) ==
  /\ ~storeDown
  /\ u # user
  /\ role[u] \in {"agent", "manager"}
  /\ IF id # 0
     THEN /\ id \in DOMAIN knowledge_base
          /\ ArticlesUpdate(u, id, status)
     ELSE /\ Len(knowledge_base) < MaxArticles
          /\ ArticlesInsert(u, status, u)
  /\ UNCHANGED <<role, tickets, ticket_comments, categories, nextCategoryId, now, storeDown>>
  /\ UNCHANGED <<lastOp, pageVars>>

KbNext ==
  \/ MountKnowledgeBase
  \/ KnowledgeBase_fetchUserProfile
  \/ fetchArticles
  \/ \E id \in 1..MaxArticles : MountKnowledgeBaseArticle(id)
  \/ KnowledgeBaseArticle_fetchUserProfile
  \/ fetchArticle
  \/ \E id \in 0..MaxArticles : MountKnowledgeBaseEditor(id)
  \/ KnowledgeBaseEditor_fetchArticle
  \/ \E status \in ArticleStatuses : setFormData(status)
  \/ handleSubmit
  \/ \E u \in Users, id \in 0..MaxArticles, status \in ArticleStatuses :
        Other_handleSubmit(u, id, status)

\* The knowledge-base pages of one session, beside the sessions of the others.
SpecKb == Init /\ [][KbNext]_vars


\* ---- Dashboard: the reduction of fetchStats
\* A row of the answer: status, priority, category (the embedded categories
\* row [name], or null), assigned_to (the embedded users row [full_name], or
\* null), created_at and updated_at (seconds).
NoEmbed == [null |-> TRUE]

\* The exact value of a JavaScript number: a fraction <<n, d>> in lowest terms.
RECURSIVE GCD(_, _)
GCD(a, b) == IF b = 0 THEN a ELSE GCD(b, a % b)
Rat(n, d) ==
  LET g == GCD(IF n < 0 THEN -n ELSE n, d)
  IN IF n = 0 THEN <<0, 1>> ELSE <<n \div g, d \div g>>
RatAdd(a, b) == Rat(a[1] * b[2] + b[1] * a[2], a[2] * b[2])
RatDiv(a, k) == Rat(a[1], a[2] * k)

\* new Date(ts).getTime(): milliseconds
getTime(ts) == ts * 1000
MsPerHour == 1000 * 60 * 60

\* a value that `||` and `if` take for false: undefined, null, ''
Falsy(v) == v = NULL \/ v = ""

Front(seq) == SubSeq(seq, 1, Len(seq) - 1)
Last(seq) == seq[Len(seq)]

\* ticketStats.filter((t) => t.status === status).length
CountStatus(rows, status) == Len(SelectSeq(rows, LAMBDA t : t.status = status))
\* ticketStats.filter((t) => t.priority === 'urgent').length
(* a count that skips the tickets already resolved or closed *)
urgentCountOfActive(rows) ==
  Len(SelectSeq(rows, LAMBDA t : t.priority = "urgent"
                                  /\ t.status \in {"open", "pending"}))
urgentCount(rows) == Len(SelectSeq(rows, LAMBDA t : t.priority = "urgent"))

\* ticket.category?.name || 'Uncategorized'
CategoryOf(t) ==
  LET name == IF t.category = NoEmbed THEN NULL ELSE t.category.name
  IN IF Falsy(name) THEN "Uncategorized" ELSE name

\* categoryCount, as Object.entries lists it: the keys in insertion order
(* a reduce that starts a key at 0 *)
RECURSIVE categoryCountFromZero(_)
categoryCountFromZero(rows) ==
  IF rows = <<>> THEN <<>>
  ELSE LET acc == categoryCountFromZero(Front(rows))
           category == CategoryOf(Last(rows))
       IN IF \E i \in DOMAIN acc : acc[i].category = category
          THEN [i \in DOMAIN acc |->
                  IF acc[i].category = category
                  THEN [acc[i] EXCEPT !.count = @ + 1] ELSE acc[i]]
          ELSE Append(acc, [category |-> category, count |-> 0])
RECURSIVE categoryCount(_)
categoryCount(rows) ==
  IF rows = <<>> THEN <<>>
  ELSE LET acc == categoryCount(Front(rows))
           category == CategoryOf(Last(rows))
       IN IF \E i \in DOMAIN acc : acc[i].category = category
          THEN [i \in DOMAIN acc |->
                  IF acc[i].category = category
                  THEN [acc[i] EXCEPT !.count = @ + 1] ELSE acc[i]]
          ELSE Append(acc, [category |-> category, count |-> 1])

\* agentPerformance, as Object.entries lists it
RECURSIVE agentPerformance(_)
agentPerformance(rows) ==
  IF rows = <<>> THEN <<>>
  ELSE LET acc == agentPerformance(Front(rows))
           t == Last(rows)
           agent == IF t.assigned_to = NoEmbed THEN NULL
                    ELSE t.assigned_to.full_name
           one == IF t.status = "resolved" THEN 1 ELSE 0
       IN IF Falsy(agent) THEN acc
          ELSE IF \E i \in DOMAIN acc : acc[i].agent = agent
          THEN [i \in DOMAIN acc |->
                  IF acc[i].agent = agent
                  THEN [agent |-> agent, count |-> acc[i].count + 1,
                        resolved |-> acc[i].resolved + one]
                  ELSE acc[i]]
          ELSE Append(acc, [agent |-> agent, count |-> 1, resolved |-> one])

\* resolvedTickets.reduce(...): the hours of the resolved tickets, added up
RECURSIVE sumHours(_)
sumHours(rows) ==
  IF rows = <<>> THEN <<0, 1>>
  ELSE RatAdd(sumHours(Front(rows)),
              Rat(getTime(Last(rows).updated_at) - getTime(Last(rows).created_at),
                  MsPerHour))
(* a mean over all the tickets fetched *)
avgResolutionTimeOverAll(rows) ==
  LET resolvedTickets == SelectSeq(rows, LAMBDA t : t.status = "resolved")
  IN IF Len(resolvedTickets) # 0
     THEN RatDiv(sumHours(resolvedTickets), Len(rows))
     ELSE <<0, 1>>
avgResolutionTime(rows) ==
  LET resolvedTickets == SelectSeq(rows, LAMBDA t : t.status = "resolved")
  IN IF Len(resolvedTickets) # 0
     THEN RatDiv(sumHours(resolvedTickets), Len(resolvedTickets))
     ELSE <<0, 1>>

\* the object fetchStats hands to setStats
computeStats(rows) ==
  [openTickets |-> CountStatus(rows, "open"),
   resolvedTickets |-> CountStatus(rows, "resolved"),
   pendingTickets |-> CountStatus(rows, "pending"),
   urgentTickets |-> urgentCount(rows),
   avgResponseTime |-> <<0, 1>>,
   avgResolutionTime |-> avgResolutionTime(rows),
   ticketsByCategory |-> categoryCount(rows),
   ticketsByAgent |-> agentPerformance(rows)]

\* x.toFixed(1) of the fraction n / d, in tenths (the nearest tenth, a half
\* rounded up)
toFixed1(n, d) == (2 * 10 * n + d) \div (2 * d)

\* The Resolution Rate card, in tenths of a percent.
(* a rate over the open and resolved tickets only *)
ResolutionRateOfOpen(st) ==
  IF st.resolvedTickets > 0
  THEN toFixed1(st.resolvedTickets * 100, st.openTickets + st.resolvedTickets)
  ELSE 0
ResolutionRate(st) ==
  IF st.resolvedTickets > 0
  THEN toFixed1(st.resolvedTickets * 100,
                st.openTickets + st.pendingTickets + st.resolvedTickets)
  ELSE 0

\* ---- Dashboard: the page
MountDashboard ==
  /\ Mount("Dashboard", 0, {"profile"}, TRUE)
  /\ UNCHANGED <<storeVars, lastOp, toast>>

Dashboard_fetchUserProfile == fetchUserProfile("Dashboard")

\* fetchStats, from the answer on: the rows are reduced and the result replaces
\* stats; req is the request answered.
setStats(req, rows) ==
  /\ page = "Dashboard"
  /\ req \in statsPending
  /\ ticketStats' = rows
  /\ stats' = computeStats(rows)
  /\ loading' = FALSE
  /\ statsPending' = statsPending \ {req}
  /\ UNCHANGED <<storeVars, lastOp, authVars, page, paramId, pending, profileVars, toast>>
  /\ UNCHANGED <<ticketViewVars, kbViewVars, settingsViewVars, timeRange>>

\* The rows an answer may carry.
FetchedCategories == {NoEmbed} \cup {[name |-> n] : n \in {"Billing"}}
FetchedAssignees ==
  {NoEmbed} \cup {[full_name |-> n] : n \in {NULL, "Ann"}}
FetchedRows ==
  [status : TicketStatuses, priority : {"medium", "urgent"},
   category : FetchedCategories, assigned_to : FetchedAssignees,
   created_at : {0}, updated_at : {0, 3600}]
FetchedAnswers == UNION {[1..n -> FetchedRows] : n \in 0..MaxFetched}

\* the Dashboard's request is answered, with any rows
fetchStatsAnswered ==
  \E req \in statsPending : \E rows \in FetchedAnswers : setStats(req, rows)

StatsNext ==
  \/ MountDashboard
  \/ fetchStatsAnswered

\* The Dashboard's reduction, over every answer within the bounds.
SpecStats == InitStore /\ [][StatsNext]_vars

\* ---- Dashboard: the page against the store
\* A ticket as the Dashboard's select lists it. The tickets of the model carry
\* no priority and no category: the row shows the column default and no
\* category. The embedded users row is the assignee's if uid may read it; a
\* user's id stands for the full_name.
StatsRow(uid, t) ==
  [status |-> t.status, priority |-> "medium", category |-> NoEmbed,
   assigned_to |-> IF t.assigned_to # NULL /\ UsersSelectUsing(uid, t.assigned_to)
                   THEN [full_name |-> t.assigned_to] ELSE NoEmbed,
   created_at |-> t.created_at, updated_at |-> t.updated_at]

\* select(...).gte('created_at', startDate), as uid: the first n tickets
RECURSIVE StatsSelect(_, _, _)
StatsSelect(uid, startDate, n) ==
  IF n = 0 THEN <<>>
  ELSE LET rest == StatsSelect(uid, startDate, n - 1)
       IN IF /\ TicketsSelectUsing(uid, tickets[n])
             /\ tickets[n].created_at >= startDate
          THEN Append(rest, StatsRow(uid, tickets[n]))
          ELSE rest

\* fetchStats is answered by the store; on an error nothing is set but loading
fetchStats ==
  \E req \in statsPending :
     IF storeDown
     THEN /\ page = "Dashboard"
          /\ loading' = FALSE
          /\ statsPending' = statsPending \ {req}
          /\ UNCHANGED <<storeVars, lastOp, authVars, page, paramId, pending,
                         profileVars, toast>>
          /\ UNCHANGED <<ticketViewVars, kbViewVars, settingsViewVars,
                         timeRange, stats, ticketStats>>
     ELSE setStats(req, StatsSelect(user, req.startDate, Len(tickets)))

\* the options of the time-range select
TimeRanges == {7, 30, 90}

\* onChange of the select, which only a manager is shown: the effect runs
\* again and issues both requests; the requests in flight are not cancelled.
setTimeRange(range) ==
  /\ page = "Dashboard"
  /\ ~loading
  /\ userProfile.role = "manager"
  /\ range # timeRange
  /\ timeRange' = range
  /\ pending' = pending \cup {"profile"}
  /\ profileLookups' = Lookup(profileLookups)
  /\ statsPending' = statsPending \cup {StatsRequest(range)}
  /\ UNCHANGED <<storeVars, lastOp, authVars, page, paramId, userProfile, loading, toast>>
  /\ UNCHANGED <<ticketViewVars, kbViewVars, settingsViewVars, stats, ticketStats>>

DashboardNext ==
  \/ MountDashboard
  \/ Dashboard_fetchUserProfile
  \/ fetchStats
  \/ \E range \in TimeRanges : setTimeRange(range)
  \/ \E u \in DashboardAuthors : Other_createTicket(u)
  \/ \E u \in Users, id \in 1..MaxTickets, newStatus \in StatusOptions :
        Other_handleStatusChange(u, id, newStatus)
  \/ Tick

InitDashboard == Init /\ user = "m1"
SpecDashboard == InitDashboard /\ [][DashboardNext]_vars

\* ---- Settings
SettingsTabs == {"categories", "users", "sla"}

MountSettings ==
  /\ Mount("Settings", 0, {"data"}, TRUE)
  /\ UNCHANGED <<storeVars, lastOp, toast>>

\* fetchData: the categories on the categories tab; on the users tab the select
\* names users.email, which is no column of users, so the answer is an error
\* and the list stays as it is; the third tab requests nothing.
fetchData ==
  /\ page = "Settings"
  /\ "data" \in pending
  /\ settingsCategories' = IF activeTab = "categories" /\ ~storeDown
                           THEN CategoriesSelect(user)
                           ELSE settingsCategories
  /\ loading' = FALSE
  /\ pending' = pending \ {"data"}
  /\ UNCHANGED <<storeVars, lastOp, authVars, page, paramId, profileVars, toast>>
  /\ UNCHANGED <<ticketViewVars, kbViewVars, activeTab, settingsRest, newCategory,
                 dashboardViewVars>>

\* the tab buttons; the effect (deps activeTab) runs again
setActiveTab(tab) ==
  /\ page = "Settings"
  /\ ~loading
  /\ tab # activeTab
  /\ activeTab' = tab
  /\ pending' = pending \cup {"data"}
  /\ UNCHANGED <<storeVars, lastOp, authVars, page, paramId, profileVars, loading, toast>>
  /\ UNCHANGED <<ticketViewVars, kbViewVars, settingsCategories, settingsRest,
                 newCategory, dashboardViewVars>>

\* the name field of the new-category form
setNewCategory(name) ==
  /\ page = "Settings"
  /\ ~loading
  /\ activeTab = "categories"
  /\ name # newCategory
  /\ newCategory' = name
  /\ UNCHANGED <<storeVars, lastOp, sessionVars>>
  /\ UNCHANGED <<ticketViewVars, kbViewVars, activeTab, settingsCategories,
                 settingsRest, dashboardViewVars>>

\* handleAddCategory: the insert, then the list is read again and the form
\* emptied; the name field is required.
handleAddCategory ==
  /\ page = "Settings"
  /\ ~loading
  /\ activeTab = "categories"
  /\ newCategory # ""
  /\ \/ nextCategoryId < MaxCategories
     \/ CategoriesInsertError(user)
     \/ storeDown
  /\ IF storeDown THEN UNCHANGED <<categories, nextCategoryId>>
     ELSE CategoriesInsert(user)
  /\ IF storeDown \/ CategoriesInsertError(user)
     THEN /\ toast' = "Failed to add category"
          /\ UNCHANGED <<settingsCategories, newCategory>>
     ELSE /\ settingsCategories' = CategoriesSelectIn(categories', user)
          /\ newCategory' = ""
          /\ toast' = "Category added successfully"
  /\ UNCHANGED <<role, tickets, ticket_comments, knowledge_base, now, storeDown>>
  /\ UNCHANGED <<lastOp, authVars, page, paramId, pending, profileVars, loading>>
  /\ UNCHANGED <<ticketViewVars, kbViewVars, activeTab, settingsRest,
                 dashboardViewVars>>

(* a delete that takes the category off the list before the store answers *)
handleDeleteCategoryOptimistic(id) ==
  /\ page = "Settings"
  /\ ~loading
  /\ activeTab = "categories"
  /\ id \in settingsCategories
  /\ settingsCategories' = settingsCategories \ {id}
  /\ IF storeDown
     THEN /\ toast' = "Failed to delete category"
          /\ UNCHANGED categories
     ELSE /\ CategoriesDelete(user, id)
          /\ toast' = "Category deleted successfully"
  /\ UNCHANGED <<role, tickets, ticket_comments, knowledge_base, nextCategoryId,
                 now, storeDown>>
  /\ UNCHANGED <<lastOp, authVars, page, paramId, pending, profileVars, loading>>
  /\ UNCHANGED <<ticketViewVars, kbViewVars, activeTab, settingsRest, newCategory,
                 dashboardViewVars>>

\* handleDeleteCategory, from the Delete button of a listed category
handleDeleteCategory(id) ==
  /\ page = "Settings"
  /\ ~loading
  /\ activeTab = "categories"
  /\ id \in settingsCategories
  /\ IF storeDown
     THEN /\ toast' = "Failed to delete category"
          /\ UNCHANGED <<categories, settingsCategories>>
     ELSE /\ CategoriesDelete(user, id)
          /\ settingsCategories' = settingsCategories \ {id}
          /\ toast' = "Category deleted successfully"
  /\ UNCHANGED <<role, tickets, ticket_comments, knowledge_base, nextCategoryId,
                 now, storeDown>>
  /\ UNCHANGED <<lastOp, authVars, page, paramId, pending, profileVars, loading>>
  /\ UNCHANGED <<ticketViewVars, kbViewVars, activeTab, settingsRest, newCategory,
                 dashboardViewVars>>

\* handleUpdateUserRole, from the role select of a listed user
handleUpdateUserRole(userId, newRole) ==
  /\ page = "Settings"
  /\ ~loading
  /\ activeTab = "users"
  /\ userId \in settingsUsers
  /\ IF storeDown
     THEN /\ toast' = "Failed to update user role"
          /\ UNCHANGED role
     ELSE /\ UsersUpdateRole(user, userId, newRole)
          /\ toast' = "User role updated successfully"
  /\ UNCHANGED <<tickets, ticket_comments, knowledge_base, categories,
                 nextCategoryId, now, storeDown>>
  /\ UNCHANGED <<lastOp, authVars, page, paramId, pending, profileVars, loading>>
  /\ UNCHANGED viewVars

\* handleDeleteCategory up to its await: the request is sent; the call keeps
\* the categories of the render it was made in.
handleDeleteCategory_call(id) ==
  /\ page = "Settings"
  /\ ~loading
  /\ activeTab = "categories"
  /\ id \in settingsCategories
  /\ Cardinality(deletesInFlight) < MaxDeletes
  /\ deletesInFlight' =
       deletesInFlight \cup {[id |-> id, categories |-> settingsCategories]}
  /\ UNCHANGED <<storeVars, lastOp, sessionVars>>
  /\ UNCHANGED <<ticketViewVars, kbViewVars, activeTab, settingsCategories,
                 settingsUsers, slaConfig, newCategory, dashboardViewVars>>

\* handleDeleteCategory from its await on: the store answers, and
\* setCategories(categories.filter(cat => cat.id !== id)) with the categories
\* the call kept.
handleDeleteCategory_return ==
  \E call \in deletesInFlight :
     /\ page = "Settings"
     /\ deletesInFlight' = deletesInFlight \ {call}
     /\ IF storeDown
        THEN /\ toast' = "Failed to delete category"
             /\ UNCHANGED <<categories, settingsCategories>>
        ELSE /\ CategoriesDelete(user, call.id)
             /\ settingsCategories' = call.categories \ {call.id}
             /\ toast' = "Category deleted successfully"
     /\ UNCHANGED <<role, tickets, ticket_comments, knowledge_base, nextCategoryId,
                    now, storeDown>>
     /\ UNCHANGED <<lastOp, authVars, page, paramId, pending, profileVars, loading>>
     /\ UNCHANGED <<ticketViewVars, kbViewVars, activeTab, settingsUsers, slaConfig,
                    newCategory, dashboardViewVars>>

\* the inputs of the SLA table that the specifications change
SLAInputs ==
  [priority : {"urgent", "medium"}, field : {"response_time", "resolution_time"},
   value : {1}]

\* handleSLAUpdate, from an input of the SLA table: the value is kept in the
\* page's state and sent nowhere.
handleSLAUpdate(priority, field, value) ==
  /\ page = "Settings"
  /\ ~loading
  /\ activeTab = "sla"
  /\ slaConfig[priority][field] # value
  /\ slaConfig' = [slaConfig EXCEPT ![priority][field] = value]
  /\ UNCHANGED <<storeVars, lastOp, sessionVars>>
  /\ UNCHANGED <<ticketViewVars, kbViewVars, activeTab, settingsCategories,
                 settingsUsers, deletesInFlight, newCategory, dashboardViewVars>>

\* Settings in a manager's session
SettingsNext ==
  \/ MountSettings
  \/ fetchData
  \/ \E tab \in SettingsTabs : setActiveTab(tab)
  \/ \E name \in {"", "name"} : setNewCategory(name)
  \/ handleAddCategory
  \/ \E id \in 1..MaxCategories : handleDeleteCategory_call(id)
  \/ handleDeleteCategory_return
  \/ \E input \in SLAInputs :
        handleSLAUpdate(input.priority, input.field, input.value)

InitSettings == Init /\ user = "m1"
SpecSettings == InitSettings /\ [][SettingsNext]_vars

\* ---- every page that reads or writes tickets, Settings' SLA table, and the
\* clock, beside tickets that carry a due time
AutoNext ==
  \/ MountTicketList
  \/ TicketList_fetchUserProfile
  \/ fetchTickets
  \/ \E id \in 1..MaxMutated : MountTicketDetail(id)
  \/ TicketDetail_fetchUserProfile
  \/ fetchTicket
  \/ \E newStatus \in StatusOptions : handleStatusChange(newStatus)
  \/ \E text \in {"", "text"} : setNewComment(text)
  \/ handleCommentSubmit
  \/ MountDashboard
  \/ Dashboard_fetchUserProfile
  \/ fetchStats
  \/ MountSettings
  \/ fetchData
  \/ \E tab \in SettingsTabs : setActiveTab(tab)
  \/ \E input \in SLAInputs :
        handleSLAUpdate(input.priority, input.field, input.value)
  \/ \E u \in DashboardAuthors : Other_createTicketDue(u)
  \/ \E u \in Users, id \in 1..MaxMutated, newStatus \in StatusOptions :
        Other_handleStatusChange(u, id, newStatus)
  \/ Tick

SpecAuto == Init /\ [][AutoNext]_vars

\* ---- the store fails, and recovers
StoreGoesDown ==
  /\ ~storeDown
  /\ storeDown' = TRUE
  /\ UNCHANGED <<role, tickets, ticket_comments, knowledge_base, categories,
                 nextCategoryId, now>>
  /\ UNCHANGED <<lastOp, pageVars>>

StoreComesUp ==
  /\ storeDown
  /\ storeDown' = FALSE
  /\ UNCHANGED <<role, tickets, ticket_comments, knowledge_base, categories,
                 nextCategoryId, now>>
  /\ UNCHANGED <<lastOp, pageVars>>

\* ---- the six views that fetch on mount, beside a store that may fail
LoadNext ==
  \/ MountDashboard
  \/ Dashboard_fetchUserProfile
  \/ fetchStats
  \/ MountTicketList
  \/ TicketList_fetchUserProfile
  \/ fetchTickets
  \/ \E id \in 1..MaxTickets : MountTicketDetail(id)
  \/ TicketDetail_fetchUserProfile
  \/ fetchTicket
  \/ MountKnowledgeBase
  \/ KnowledgeBase_fetchUserProfile
  \/ fetchArticles
  \/ \E id \in 1..MaxArticles : MountKnowledgeBaseArticle(id)
  \/ KnowledgeBaseArticle_fetchUserProfile
  \/ fetchArticle
  \/ MountSettings
  \/ fetchData
  \/ \E u \in DashboardAuthors : Other_createTicket(u)
  \/ \E u \in Users : Other_handleSubmit(u, 0, "published")
  \/ StoreGoesDown
  \/ StoreComesUp

SpecLoad == Init /\ [][LoadNext]_vars

\* ---- the views that send mutations, beside a store that may fail

MutateNext ==
  \/ \E id \in 1..MaxMutated : MountTicketDetail(id)
  \/ TicketDetail_fetchUserProfile
  \/ fetchTicket
  \/ \E newStatus \in StatusOptions : handleStatusChange(newStatus)
  \/ \E text \in {"", "text"} : setNewComment(text)
  \/ \E checked \in BOOLEAN : setIsInternalNote(checked)
  \/ handleCommentSubmit
  \/ MountSettings
  \/ fetchData
  \/ \E tab \in SettingsTabs : setActiveTab(tab)
  \/ \E name \in {"", "name"} : setNewCategory(name)
  \/ handleAddCategory
  \/ \E id \in 1..MaxCategories : handleDeleteCategory(id)
  \/ \E id \in 0..MaxMutated : MountKnowledgeBaseEditor(id)
  \/ KnowledgeBaseEditor_fetchArticle
  \/ \E status \in ArticleStatuses : setFormData(status)
  \/ /\ \/ paramId # 0
        \/ Len(knowledge_base) < MaxMutated
        \/ storeDown
        \/ ArticlesInsertError(user, formData, user)
     /\ handleSubmit
  \/ \E u \in DashboardAuthors : Len(tickets) < MaxMutated /\ Other_createTicket(u)
  \/ StoreGoesDown
  \/ StoreComesUp

\* the session of a client, or of a manager
InitMutate == Init /\ user \in {"c1", "m1"}
SpecMutate == InitMutate /\ [][MutateNext]_vars

\* ---- the auth store (useAuth), AuthProvider and ProtectedRoute
\* the users who sign in, in the specifications of the auth store
AuthUsers == {"c1", "m1"}

\* a call to the identity provider: sent, or answered with the user it returns
AuthCall(call, stage, usr) == [call |-> call, stage |-> stage, user |-> usr]

\* useAuth's initial state, AuthProvider mounted: getSession() has been called
\* and the listener is subscribed; the provider holds a session, or none.
InitAuth ==
  /\ InitApp
  /\ user = NULL
  /\ authLoading = TRUE
  /\ session \in AuthUsers \cup {NULL}
  /\ authInFlight = {AuthCall("getSession", "sent", NULL)}
  /\ authEvents = <<>>

appVars ==
  <<storeVars, lastOp, page, paramId, pending, profileVars, loading, toast, viewVars>>

\* setUser: (user) => set({ user, loading: false })
setUser(usr) ==
  /\ user' = usr
  /\ authLoading' = FALSE

\* the calls of signIn, signUp and signOut that have not returned
AuthCallsOpen == {c \in authInFlight : c.call # "getSession"}

\* supabase.auth.getSession() is answered with the session the provider holds
auth_getSession ==
  \E c \in authInFlight :
     /\ c.call = "getSession" /\ c.stage = "sent"
     /\ authInFlight' = (authInFlight \ {c})
                           \cup {AuthCall("getSession", "answered", session)}
     /\ UNCHANGED <<user, authLoading, session, authEvents, appVars>>

\* .then(({ data: { session } }) => setUser(session?.user ?? null))
getSession_then ==
  \E c \in authInFlight :
     /\ c.call = "getSession" /\ c.stage = "answered"
     /\ setUser(c.user)
     /\ authInFlight' = authInFlight \ {c}
     /\ UNCHANGED <<session, authEvents, appVars>>

\* the listener of onAuthStateChange: setUser(session?.user ?? null), for the
\* events in the order the provider raised them
onAuthStateChange ==
  /\ authEvents # <<>>
  /\ setUser(Head(authEvents))
  /\ authEvents' = Tail(authEvents)
  /\ UNCHANGED <<session, authInFlight, appVars>>

\* signIn is called: supabase.auth.signInWithPassword is sent
signIn(usr) ==
  /\ Cardinality(AuthCallsOpen) < MaxAuthCalls
  /\ authInFlight' = authInFlight \cup {AuthCall("signIn", "sent", usr)}
  /\ UNCHANGED <<user, authLoading, session, authEvents, appVars>>

\* the provider answers signInWithPassword: the session is the user's and the
\* change is raised to the listener, or the credentials are refused
auth_signInWithPassword(ok) ==
  \E c \in authInFlight :
     /\ c.call = "signIn" /\ c.stage = "sent"
     /\ IF ok
        THEN /\ Len(authEvents) < MaxAuthEvents
             /\ session' = c.user
             /\ authEvents' = Append(authEvents, c.user)
             /\ authInFlight' = (authInFlight \ {c})
                                   \cup {AuthCall("signIn", "answered", c.user)}
        ELSE /\ authInFlight' = (authInFlight \ {c})
                                   \cup {AuthCall("signIn", "error", c.user)}
             /\ UNCHANGED <<session, authEvents>>
     /\ UNCHANGED <<user, authLoading, appVars>>

\* signIn continues after the await: if (error) throw error;
\* set({ user: data.user, loading: false })
signIn_return ==
  \E c \in authInFlight :
     /\ c.call = "signIn" /\ c.stage \in {"answered", "error"}
     /\ IF c.stage = "error" THEN UNCHANGED <<user, authLoading>>
        ELSE setUser(c.user)
     /\ authInFlight' = authInFlight \ {c}
     /\ UNCHANGED <<session, authEvents, appVars>>

\* signOut is called: supabase.auth.signOut is sent
signOut ==
  /\ Cardinality(AuthCallsOpen) < MaxAuthCalls
  /\ authInFlight' = authInFlight \cup {AuthCall("signOut", "sent", NULL)}
  /\ UNCHANGED <<user, authLoading, session, authEvents, appVars>>

\* the provider ends the session and raises the change to the listener
auth_signOut ==
  \E c \in authInFlight :
     /\ c.call = "signOut" /\ c.stage = "sent"
     /\ Len(authEvents) < MaxAuthEvents
     /\ session' = NULL
     /\ authEvents' = Append(authEvents, NULL)
     /\ authInFlight' = (authInFlight \ {c})
                           \cup {AuthCall("signOut", "answered", NULL)}
     /\ UNCHANGED <<user, authLoading, appVars>>

\* signOut continues after the await: set({ user: null, loading: false })
signOut_return ==
  \E c \in authInFlight :
     /\ c.call = "signOut" /\ c.stage = "answered"
     /\ setUser(NULL)
     /\ authInFlight' = authInFlight \ {c}
     /\ UNCHANGED <<session, authEvents, appVars>>

\* signUp is called: supabase.auth.signUp is sent
signUp(usr) ==
  /\ Cardinality(AuthCallsOpen) < MaxAuthCalls
  /\ authInFlight' = authInFlight \cup {AuthCall("signUp", "sent", usr)}
  /\ UNCHANGED <<user, authLoading, session, authEvents, appVars>>

\* the provider answers signUp with the new user; it opens a session for the
\* user at once (signedIn), or leaves the address to be confirmed first
auth_signUp(signedIn) ==
  \E c \in authInFlight :
     /\ c.call = "signUp" /\ c.stage = "sent"
     /\ IF signedIn
        THEN /\ Len(authEvents) < MaxAuthEvents
             /\ session' = c.user
             /\ authEvents' = Append(authEvents, c.user)
        ELSE UNCHANGED <<session, authEvents>>
     /\ authInFlight' = (authInFlight \ {c})
                           \cup {AuthCall("signUp", "answered", c.user)}
     /\ UNCHANGED <<user, authLoading, appVars>>

\* signUp continues after the await: set({ user: response.data.user })
signUp_return ==
  \E c \in authInFlight :
     /\ c.call = "signUp" /\ c.stage = "answered"
     /\ user' = c.user
     /\ authInFlight' = authInFlight \ {c}
     /\ UNCHANGED <<authLoading, session, authEvents, appVars>>

\* what ProtectedRoute renders
(* a route that does not wait for the session to be read *)
ProtectedRouteWithoutLoading ==
  IF user = NULL THEN "Navigate" ELSE "Outlet"
ProtectedRoute ==
  IF authLoading THEN "Spinner"
  ELSE IF user = NULL THEN "Navigate"
  ELSE "Outlet"

\* the session is read, changes are delivered, users sign in and out
AuthNext ==
  \/ auth_getSession
  \/ getSession_then
  \/ onAuthStateChange
  \/ \E usr \in AuthUsers : signIn(usr)
  \/ \E ok \in BOOLEAN : auth_signInWithPassword(ok)
  \/ signIn_return
  \/ signOut
  \/ auth_signOut
  \/ signOut_return

SpecAuth == InitAuth /\ [][AuthNext]_vars

\* ... and users register
RegisterNext ==
  \/ AuthNext
  \/ \E usr \in AuthUsers : signUp(usr)
  \/ \E signedIn \in BOOLEAN : auth_signUp(signedIn)
  \/ signUp_return

SpecRegister == InitAuth /\ [][RegisterNext]_vars

\* ===================================================================== claims
Staff == {"agent", "manager"}

\* C1: the comment rows a client's TicketDetail receives for a ticket the
\* client can read never include a row with internal_note = true.
C1_ClientNeverReceivesInternalNote ==
  role[user] = "client" =>
     \A i \in DOMAIN comments : ~comments[i].internal_note

\* C2: every ticket row a ticket read returns to a client, from the store
\* and into the client's TicketList and TicketDetail, has created_by equal to
\* the client's id.
C2_ClientReadsOnlyOwnTickets ==
  /\ \A u \in Users : role[u] = "client" =>
        \A t \in TicketsSelect(u) : t.created_by = u
  /\ role[user] = "client" =>
        /\ \A t \in ticketList : t.created_by = user
        /\ ticket # NoTicket => ticket.created_by = user

\* A client's TicketList shows the client's ticket while the store also holds a
\* ticket of another user, and the answer has arrived.
C2_Witness ==
  /\ role[user] = "client"
  /\ page = "TicketList"
  /\ ~loading
  /\ ticketList # {}
  /\ \E i \in DOMAIN tickets : tickets[i].created_by # user

\* C3: a status update issued by a client is answered with an error and
\* leaves the tickets unchanged; issued by an agent or a manager it succeeds
\* and the stored status is the new value.
C3_ClientStatusUpdateRejected ==
  [][(lastOp'.cmd = "tickets.update" /\ lastOp'.col = "status") =>
       IF role[lastOp'.actor] = "client"
       THEN lastOp'.error /\ tickets' = tickets
       ELSE ~lastOp'.error /\ tickets'[lastOp'.id].status = lastOp'.val]_vars

C5_CreatedByImmutable ==
  [][\A i \in DOMAIN tickets : tickets'[i].created_by = tickets[i].created_by]_vars

\* C6: a role update issued by a manager is applied to the stored user row;
\* issued by a client or an agent it leaves every stored role unchanged.
C6_RoleMutableOnlyByManager ==
  [][lastOp'.cmd = "users.update" =>
       IF role[lastOp'.actor] = "manager"
       THEN role'[lastOp'.usr] = lastOp'.val
       ELSE role' = role]_vars

\* C7: a category insert or delete, or a role update, issued by a user who is
\* not a manager is answered with an error.
C7_UnpermittedWriteAnsweredWithError ==
  (/\ lastOp.cmd \in {"categories.insert", "categories.delete", "users.update"}
   /\ role[lastOp.actor] # "manager") => lastOp.error

\* C8: every stored comment was inserted by an agent or a manager; a comment
\* submitted by a client is refused, stores no row, and leaves the comment list
\* and the comment form of TicketDetail as they were; a comment submitted by an
\* agent or a manager is stored.
C8_CommentInsertStaffOnly ==
  /\ [](\A i \in DOMAIN ticket_comments :
          role[ticket_comments[i].created_by] \in Staff)
  /\ [][handleCommentSubmit =>
          IF role[user] = "client"
          THEN /\ toast' = "Failed to add comment"
               /\ ticket_comments' = ticket_comments
               /\ comments' = comments
               /\ newComment' = newComment
               /\ isInternalNote' = isInternalNote
          ELSE /\ toast' = "Comment added successfully"
               /\ Len(ticket_comments') = Len(ticket_comments) + 1]_vars

\* A client's submit has been refused on a page that shows a comment, and the
\* text typed is still in the box.
C8_Witness ==
  /\ role[user] = "client"
  /\ page = "TicketDetail"
  /\ toast = "Failed to add comment"
  /\ newComment # ""
  /\ Len(comments) = 1
  /\ ticket_comments = comments

\* C9: a draft or pending_review article is never returned to a client and
\* never changed by a client, and a client stores no article; a published
\* article is returned to every user; an agent or a manager reads every
\* article and can insert and update articles of every status.
C9_ArticleVisibility ==
  /\ [](\A u \in Users :
          /\ \A i \in DOMAIN knowledge_base :
                knowledge_base[i].status = "published" =>
                   knowledge_base[i] \in ArticlesSelect(u)
          /\ role[u] = "client" =>
                \A a \in ArticlesSelect(u) : a.status = "published"
          /\ role[u] \in Staff =>
                /\ ArticlesSelect(u) =
                     {knowledge_base[i] : i \in DOMAIN knowledge_base}
                /\ \A i \in DOMAIN knowledge_base : ArticlesUpdateRows(u, i) = {i}
                /\ \A st \in ArticleStatuses : ~ArticlesInsertError(u, st, u))
  /\ [](role[user] = "client" =>
          /\ article # NoArticle => article.status = "published"
          /\ \A a \in articles : a.status = "published")
  /\ [](\A u \in Users : role[u] = "client" =>
          /\ \A i \in DOMAIN knowledge_base : ArticlesUpdateRows(u, i) = {}
          /\ \A st \in ArticleStatuses : ArticlesInsertError(u, st, u))
  /\ [][(role[user] = "client" /\ handleSubmit) =>
          knowledge_base' = knowledge_base]_vars

\* A client's KnowledgeBaseArticle shows a published article while the store
\* also holds an article that is not published.
C9_Witness ==
  /\ role[user] = "client"
  /\ page = "KnowledgeBaseArticle"
  /\ article # NoArticle
  /\ \E i \in DOMAIN knowledge_base : knowledge_base[i].status # "published"

\* C10: every user reads every stored category, and the stored categories
\* change only in an insert or a delete issued by a manager.
C10_CategoriesManagerOnly ==
  /\ [](\A u \in Users : CategoriesSelect(u) = categories)
  /\ [][categories' # categories =>
          /\ role[lastOp'.actor] = "manager"
          /\ lastOp'.cmd \in {"categories.insert", "categories.delete"}]_vars

\* A client's delete of a category has left the two stored categories, the
\* second of them inserted by a manager.
C10_Witness ==
  /\ lastOp.cmd = "categories.delete"
  /\ role[lastOp.actor] = "client"
  /\ Cardinality(categories) = 2


\* ---- the Dashboard's figures, stated on the rows fetched (ticketStats)
RowsWith(status) == {i \in DOMAIN ticketStats : ticketStats[i].status = status}
RECURSIVE SecondsOf(_)
SecondsOf(S) ==
  IF S = {} THEN 0
  ELSE LET i == CHOOSE j \in S : TRUE
       IN (ticketStats[i].updated_at - ticketStats[i].created_at)
          + SecondsOf(S \ {i})

\* C11: avgResolutionTime is the sum, over the resolved tickets fetched, of
\* (updated_at - created_at) in hours, divided by the number of resolved
\* tickets; it is 0 when no ticket is resolved, and exactly 1 when the only
\* resolved ticket has updated_at = created_at + 3600 s.
C11_AvgResolutionTime ==
  LET resolved == RowsWith("resolved")
      n == Cardinality(resolved)
      avg == stats.avgResolutionTime
  IN /\ n = 0 => avg = <<0, 1>>
     /\ n > 0 => avg[1] * 3600 * n = SecondsOf(resolved) * avg[2]
     /\ (n = 1 /\ SecondsOf(resolved) = 3600) => avg = <<1, 1>>

C11_Witness ==
  /\ page = "Dashboard" /\ ~loading
  /\ Len(ticketStats) = 2
  /\ Cardinality(RowsWith("resolved")) = 1
  /\ SecondsOf(RowsWith("resolved")) = 3600
  /\ stats.avgResolutionTime = <<1, 1>>

\* C12: the Resolution Rate shown is resolved / (open + pending + resolved)
\* x 100 (to the nearest tenth, as toFixed(1) prints it), and 0 when that
\* denominator is 0; it is computed without a division by zero for every
\* ticket set, the empty one and one of closed tickets only included.
C12_ResolutionRate ==
  LET r == Cardinality(RowsWith("resolved"))
      den == Cardinality(RowsWith("open")) + Cardinality(RowsWith("pending")) + r
      shown == ResolutionRate(stats)
      diff == shown * den - 1000 * r
  IN /\ den = 0 => shown = 0
     /\ den > 0 => 2 * (IF diff < 0 THEN -diff ELSE diff) <= den

C12_Witness ==
  /\ page = "Dashboard" /\ ~loading
  /\ Cardinality(RowsWith("resolved")) = 1
  /\ Cardinality(RowsWith("pending")) = 1
  /\ ResolutionRate(stats) = 500

\* the category a fetched ticket is counted under, as the specification names it
CategoryNameOf(i) ==
  IF ticketStats[i].category = NoEmbed THEN "Uncategorized"
  ELSE ticketStats[i].category.name
RECURSIVE SumCount(_)
SumCount(entries) ==
  IF entries = <<>> THEN 0 ELSE Last(entries).count + SumCount(Front(entries))

\* C13: ticketsByCategory has exactly one entry for each distinct category
\* name among the tickets fetched (a ticket without category counts under
\* "Uncategorized"), each entry's count is the number of fetched tickets of
\* that category, and the counts add up to the number of tickets fetched.
C13_TicketsByCategory ==
  LET entries == stats.ticketsByCategory
      names == {CategoryNameOf(i) : i \in DOMAIN ticketStats}
  IN /\ \A j \in DOMAIN entries : entries[j].category \in names
     /\ \A name \in names :
          /\ Cardinality({j \in DOMAIN entries : entries[j].category = name}) = 1
          /\ \A j \in DOMAIN entries :
               entries[j].category = name =>
                 entries[j].count =
                   Cardinality({i \in DOMAIN ticketStats : CategoryNameOf(i) = name})
     /\ SumCount(entries) = Len(ticketStats)

C13_Witness ==
  /\ page = "Dashboard" /\ ~loading
  /\ Len(ticketStats) = 2
  /\ \E i \in DOMAIN ticketStats : ticketStats[i].category = NoEmbed
  /\ \E i \in DOMAIN ticketStats : ticketStats[i].category # NoEmbed
  /\ Len(stats.ticketsByCategory) = 2
  /\ \E j \in DOMAIN stats.ticketsByCategory :
       stats.ticketsByCategory[j] = [category |-> "Uncategorized", count |-> 1]

\* the fetched tickets that have an assignee, and the assignees
Assigned == {i \in DOMAIN ticketStats : ticketStats[i].assigned_to # NoEmbed}
Assignees == {ticketStats[i].assigned_to : i \in Assigned}
TicketsOf(a) == {i \in Assigned : ticketStats[i].assigned_to = a}

\* C14: ticketsByAgent has an entry for an assignee exactly when at least one
\* fetched ticket is assigned to them; the entry's count is the number of
\* tickets assigned to that assignee and its resolved the number of those that
\* are resolved (so resolved <= count and count >= 1); tickets without
\* assignee enter no entry, so the counts add up to the number of assigned
\* tickets.
C14_TicketsByAgent ==
  LET entries == stats.ticketsByAgent
  IN /\ \A a \in Assignees :
          \E j \in DOMAIN entries :
            /\ entries[j].agent = a.full_name
            /\ entries[j].count = Cardinality(TicketsOf(a))
            /\ entries[j].resolved =
                 Cardinality(TicketsOf(a) \cap RowsWith("resolved"))
     /\ \A j \in DOMAIN entries :
          /\ \E a \in Assignees : entries[j].agent = a.full_name
          /\ entries[j].resolved <= entries[j].count
          /\ entries[j].count >= 1
     /\ \A j, k \in DOMAIN entries : entries[j].agent = entries[k].agent => j = k
     /\ SumCount(entries) = Cardinality(Assigned)

\* C15: openTickets, pendingTickets and resolvedTickets are the numbers of
\* fetched tickets with that status; urgentTickets is the number of fetched
\* tickets of priority urgent, whatever their status; a closed ticket is in
\* none of the three status counts.
C15_BasicCounts ==
  /\ stats.openTickets = Cardinality(RowsWith("open"))
  /\ stats.pendingTickets = Cardinality(RowsWith("pending"))
  /\ stats.resolvedTickets = Cardinality(RowsWith("resolved"))
  /\ stats.urgentTickets =
       Cardinality({i \in DOMAIN ticketStats : ticketStats[i].priority = "urgent"})
  /\ stats.openTickets + stats.pendingTickets + stats.resolvedTickets
       = Len(ticketStats) - Cardinality(RowsWith("closed"))

C15_Witness ==
  /\ page = "Dashboard" /\ ~loading
  /\ \E i \in RowsWith("closed") : ticketStats[i].priority = "urgent"
  /\ \E i \in RowsWith("resolved") : ticketStats[i].priority = "urgent"
  /\ stats.urgentTickets = 2
  /\ stats.openTickets + stats.pendingTickets + stats.resolvedTickets = 1

\* C16: the Dashboard's statistics are recomputed whenever the time window
\* or the stored ticket set changes: once no fetchStats is outstanding, the
\* statistics displayed are the aggregation of the tickets stored now whose
\* created_at lies in the window selected now.
C16_StatsFollowStore ==
  (page = "Dashboard" /\ ~loading /\ statsPending = {}) =>
     stats = computeStats(StatsSelect(user, StatsRequest(timeRange).startDate,
                                      Len(tickets)))

\* C17: status transitions are for agents and managers only and unordered:
\* whatever a ticket's status, an agent or manager can set it in one step to
\* open, pending or resolved (and a client to nothing); a status changes only
\* by a status change of the staff; no status change made through
\* TicketDetail's status control leaves a ticket closed.
C17_StatusTransitions ==
  /\ [](\A i \in DOMAIN tickets : tickets[i].status # "closed")
  /\ [](\A u \in Users, i \in DOMAIN tickets :
          IF role[u] \in Staff
          THEN \A s \in {"open", "pending", "resolved"} :
                  /\ i \in TicketsUpdateRows(u, i)
                  /\ ~TicketsUpdateError(u, i, "status", s)
          ELSE TicketsUpdateRows(u, i) = {})
  /\ [][\A s \in StatusOptions :
          handleStatusChange(s) =>
            /\ role[user] \in Staff
            /\ s \in {"open", "pending", "resolved"}
            /\ ticket.id \in DOMAIN tickets => tickets'[ticket.id].status = s]_vars
  /\ [][\A i \in DOMAIN tickets :
          tickets'[i].status # tickets[i].status =>
            \/ handleStatusChange(tickets'[i].status)
            \/ \E u \in {v \in Users : role[v] \in Staff} :
                  Other_handleStatusChange(u, i, tickets'[i].status)]_vars

C17_Witness ==
  /\ page = "TicketDetail"
  /\ userProfile.role \in Staff
  /\ ticket # NoTicket
  /\ ticket.status = "resolved"
  /\ ticket.id \in DOMAIN tickets
  /\ tickets[ticket.id].status = "resolved"
  /\ toast = "Status updated successfully"

\* C18: every article is created with status draft, and an article becomes
\* published only after it has been pending_review: none is created as
\* published and none goes from draft to published in one step.
C18_ArticleWorkflow ==
  /\ [][Len(knowledge_base') > Len(knowledge_base) =>
          knowledge_base'[Len(knowledge_base')].status = "draft"]_vars
  /\ [][\A i \in DOMAIN knowledge_base :
          knowledge_base[i].status = "draft" =>
            knowledge_base'[i].status # "published"]_vars

\* the error notifications of the pages
ErrorToasts ==
  {"Failed to load ticket", "Failed to update status", "Failed to add comment",
   "Failed to load article", "Failed to update article", "Failed to create article",
   "Failed to add category", "Failed to delete category",
   "Failed to update user role"}
ListViews == {"TicketList", "KnowledgeBase"}

\* the initial fetch of one of the six views is answered
InitialFetchAnswered ==
  fetchStats \/ fetchTickets \/ fetchTicket \/ fetchArticles \/ fetchArticle
    \/ fetchData

\* C19: when the initial fetch of Dashboard, TicketList, TicketDetail,
\* KnowledgeBase, KnowledgeBaseArticle or Settings fails, an error notification
\* is shown and the user is taken to a list view.
C19_FailedLoadNotified ==
  [][(storeDown /\ InitialFetchAnswered) =>
        (toast' \in ErrorToasts /\ page' \in ListViews)]_vars

\* the view state a mutation handler works on, and what a retry would touch
MutationViewVars ==
  <<ticket, comments, newComment, isInternalNote, settingsCategories,
    newCategory, settingsUsers, formData, page, paramId, pending, loading>>

\* C20: when the request of a mutation fails (status change, comment insert,
\* category insert or delete, article create or update), the handler's error
\* notification is shown, no request is issued again, and the store and the
\* view state held before the call are unchanged.
C20_FailedMutation ==
  [][/\ \A s \in StatusOptions :
          (handleStatusChange(s)
             /\ (storeDown \/ TicketsUpdateError(user, ticket.id, "status", s)))
            => toast' = "Failed to update status"
               /\ UNCHANGED <<MutationViewVars, storeVars>>
     /\ (handleCommentSubmit
           /\ (storeDown \/ CommentsInsertError(user, ticket.id, isInternalNote, user)))
          => toast' = "Failed to add comment"
             /\ UNCHANGED <<MutationViewVars, storeVars>>
     /\ (handleAddCategory /\ (storeDown \/ CategoriesInsertError(user)))
          => toast' = "Failed to add category"
             /\ UNCHANGED <<MutationViewVars, storeVars>>
     /\ \A id \in settingsCategories :
          (handleDeleteCategory(id) /\ storeDown)
            => toast' = "Failed to delete category"
               /\ UNCHANGED <<MutationViewVars, storeVars>>
     /\ (handleSubmit
           /\ (storeDown \/ (paramId = 0 /\ ArticlesInsertError(user, formData, user))))
          => toast' = (IF paramId # 0 THEN "Failed to update article"
                       ELSE "Failed to create article")
             /\ UNCHANGED <<MutationViewVars, storeVars>>
    ]_vars

C20_Witness ==
  /\ page = "Settings"
  /\ storeDown
  /\ toast = "Failed to delete category"
  /\ settingsCategories # {}
  /\ settingsCategories = categories

\* C21: status updates of two users on one ticket are both accepted, none is
\* answered with an error or changes no row, and after each update the status
\* stored is the value that update wrote: the update applied last decides.
C21_LastWriteWins ==
  [][/\ \A s \in StatusOptions :
          handleStatusChange(s) =>
            /\ ~TicketsUpdateError(user, ticket.id, "status", s)
            /\ TicketsUpdateRows(user, ticket.id) = {ticket.id}
            /\ toast' = "Status updated successfully"
            /\ tickets'[ticket.id].status = s
     /\ \A u \in Users, i \in DOMAIN tickets, s \in StatusOptions :
          Other_handleStatusChange(u, i, s) =>
            /\ ~TicketsUpdateError(u, i, "status", s)
            /\ TicketsUpdateRows(u, i) = {i}
            /\ tickets'[i].status = s
    ]_vars

\* The user's status change was reported as done, and the store now holds the
\* status another user wrote after it.
C21_Witness ==
  /\ page = "TicketDetail"
  /\ toast = "Status updated successfully"
  /\ ticket.status = "pending"
  /\ ticket.id \in DOMAIN tickets
  /\ tickets[ticket.id].status = "resolved"

\* the views that look up the role of the user
RoleViews ==
  {"Dashboard", "TicketList", "TicketDetail", "KnowledgeBase", "KnowledgeBaseArticle"}

\* C22: between the mount of Dashboard, TicketList, TicketDetail, KnowledgeBase
\* or KnowledgeBaseArticle and its unmount, exactly one role query is issued
\* to the users table.
C22_RoleLookedUpOnce ==
  page \in RoleViews => profileLookups = 1

\* C24: ProtectedRoute renders its Outlet only if loading is false and user is
\* not null; with loading false and user null it redirects to /login; while
\* loading is true it renders neither.
C24_ProtectedRoute ==
  /\ ProtectedRoute = "Outlet" => (~authLoading /\ user # NULL)
  /\ (~authLoading /\ user = NULL) => ProtectedRoute = "Navigate"
  /\ authLoading => ProtectedRoute \notin {"Outlet", "Navigate"}

\* signUp has set the user while the session has not been read yet: the
\* route shows neither the page nor the redirect.
C24_Witness ==
  /\ authLoading
  /\ user # NULL
  /\ ProtectedRoute = "Spinner"

\* C25: once the getSession response, the session-change events and the
\* signIn and signOut calls have all been delivered, the user of the auth
\* store is the identity provider's session user (null when signed out).
C25_UserIsSessionUser ==
  (authInFlight = {} /\ authEvents = <<>>) => user = session

\* the views that fetch on mount
FetchingViews ==
  {"Dashboard", "TicketList", "TicketDetail", "KnowledgeBase",
   "KnowledgeBaseArticle", "Settings"}

\* C26: a fetching view whose requests have all been answered, with success
\* or with an error, is no longer loading.
C26_LoadingEnds ==
  (page \in FetchingViews /\ pending = {} /\ statsPending = {}) => ~loading

\* C27: after TicketList is mounted, with no input and every request answered
\* with success, the view comes to rest: no request is outstanding, and the
\* ticket list is displayed.
C27_TicketListComesToRest ==
  (page = "TicketList") ~> (pending = {} /\ ~loading)

\* C28: once the category deletions started from Settings have all completed
\* with success, no deleted category is displayed: the categories displayed
\* are categories the store still holds.
C28_DeletedStayDeleted ==
  (page = "Settings" /\ ~loading /\ pending = {} /\ deletesInFlight = {})
     => settingsCategories \subseteq categories

\* C29: when handleStatusChange or handleDeleteCategory reports success and
\* updates the view, the store holds the same change: the status displayed is
\* the status stored, and the category taken off the list is absent from the
\* store, whatever the role of the user.
C29_ViewMatchesStore ==
  [][/\ \A s \in StatusOptions :
          (handleStatusChange(s) /\ toast' = "Status updated successfully")
            => /\ ticket'.status = s
               /\ tickets'[ticket.id].status = s
     /\ \A id \in settingsCategories :
          (handleDeleteCategory(id) /\ toast' = "Category deleted successfully")
            => /\ id \notin settingsCategories'
               /\ id \notin categories'
    ]_vars

\* C30: a status change through handleStatusChange writes the status column
\* of the ticket it names and nothing else: the other columns of that ticket,
\* updated_at included, and every other ticket are unchanged.
C30_StatusColumnOnly ==
  [][\A s \in StatusOptions :
       handleStatusChange(s) =>
         /\ Len(tickets') = Len(tickets)
         /\ \A i \in DOMAIN tickets :
               tickets'[i] = IF i = ticket.id
                             THEN [tickets[i] EXCEPT !.status = s]
                             ELSE tickets[i]]_vars

\* A ticket has been resolved through the page long after it was filed, and
\* its updated_at is still the time it was filed; the store holds another
\* ticket.
C30_Witness ==
  /\ page = "TicketDetail"
  /\ toast = "Status updated successfully"
  /\ ticket.status = "resolved"
  /\ Len(tickets) = 2
  /\ tickets[ticket.id].status = "resolved"
  /\ tickets[ticket.id].updated_at = tickets[ticket.id].created_at
  /\ now > tickets[ticket.id].updated_at

\* C23: there are no automatic ticket transitions: a stored status changes
\* only in a status update issued by a user; comment insertions, fetches, the
\* dashboard's aggregation, edits of the SLA table and the passing of time,
\* a ticket's sla_due_at included, leave every status as it was.
C23_NoAutomaticTransition ==
  [][/\ Len(tickets') >= Len(tickets)
     /\ \A i \in DOMAIN tickets :
          tickets'[i].status # tickets[i].status =>
            \/ handleStatusChange(tickets'[i].status)
            \/ \E u \in Users : Other_handleStatusChange(u, i, tickets'[i].status)
     /\ (\/ handleCommentSubmit
         \/ fetchTicket \/ fetchTickets \/ fetchStats \/ fetchData
         \/ \E input \in SLAInputs :
               handleSLAUpdate(input.priority, input.field, input.value)
         \/ Tick)
          => \A i \in DOMAIN tickets : tickets'[i].status = tickets[i].status
    ]_vars

\* A ticket's due time has passed, a comment has been added to it and the SLA
\* table has been edited: the ticket is still open.
C23_Witness ==
  /\ page = "Settings"
  /\ slaConfig # InitialSLAConfig
  /\ Len(ticket_comments) = 1
  /\ \E i \in DOMAIN tickets :
       /\ tickets[i].sla_due_at # <<>>
       /\ tickets[i].sla_due_at[1] < now
       /\ tickets[i].status = "open"
       /\ ticket_comments[1].ticket_id = i
====
